---- MODULE Spec2Model ----
(***************************************************************************)
(* Model of the chat / live-preview page of ai-rag-system.                 *)
(*                                                                         *)
(*   src/src/app/page.tsx          Home: chat turn (handleSend), clear     *)
(*                                 (handleClearAll), split-pane drag       *)
(*   src/src/components/Preview.tsx               Preview: the surface     *)
(*   src/src/app/api/chat/clear/route.ts          POST: the clear route    *)
(*   src/src/utils/consts.ts       defaultHTML                             *)
(*                                                                         *)
(* The specifications share the actions:                                   *)
(*   Spec         the page, any interleaving of the handlers of Home       *)
(*   SpecExtract  one turn in its read loop, fed every sequence of deltas  *)
(*   SpecStream   one turn in its read loop, one body cut in every way     *)
(*   SpecDrag     the split pane alone, every pointer position             *)
(*   SpecPreview  the first turn, the divider and clicks on the surface    *)
(*   SpecReload   the first turn and the reload button of the Preview      *)
(*   SpecRelay    the clear route alone                                    *)
(*                                                                         *)
(* Text is modelled as a sequence of characters (one-character strings),   *)
(* so that the two regular expressions of the extraction block are         *)
(* evaluated character by character.  Three fixed texts that no regular    *)
(* expression of the program ever has to look into (the greeting, the      *)
(* fallback message and the placeholder document) are one-element          *)
(* sequences holding the whole text.                                       *)
(***************************************************************************)
EXTENDS Integers, Sequences, FiniteSets, TLC

(***************************************************************************)
(* Bounds of the model.                                                    *)
(***************************************************************************)
\* POST /api/chat requests issued in one behaviour
MaxRequests == 2
\* chunks the backend delivers in one behaviour (Spec)
MaxChunks == 2
\* POST /api/chat/clear calls awaiting their response at the same time
MaxClears == 1
\* requests the clear route handles in one behaviour
MaxRelayCalls == 2
\* deltas of the turn of SpecExtract
MaxDeltas == 4
\* clicks on the rendering surface in one behaviour
MaxClicks == 2
\* setTimeout callbacks of handleRefreshIframe pending at the same time
MaxPendingReloads == 2

(***************************************************************************)
(* Fixed texts.                                                            *)
(***************************************************************************)
Greeting ==
  <<"Hello! I can help you create a website. Just ask me to create a portfolio website or any other type of website you need.">>

Fallback == <<"Sorry, I encountered an error. Please try again.">>

defaultHTML == <<"<!DOCTYPE html><html lang=en>...Website Preview placeholder...</html>">>

GreetingMessage == [role |-> "assistant", content |-> Greeting]

(***************************************************************************)
(* Characters and patterns of the two regular expressions.                 *)
(***************************************************************************)
\* the backquote character (SANY does not read a backquote inside a string)
BQ == "bq"

\* "```html\n", the opening of /```html\n([\s\S]*?)\n```/
FenceOpen == <<BQ, BQ, BQ, "h", "t", "m", "l", "\n">>

\* "\n```", the closing of /```html\n([\s\S]*?)\n```/
FenceClose == <<"\n", BQ, BQ, BQ>>

\* "<!DOCTYPE html>", folded to lower case (the expression has the i flag)
DoctypeSig == <<"<", "!", "d", "o", "c", "t", "y", "p", "e", " ", "h", "t", "m", "l", ">">>

\* "<html", the start of <html[\s\S]*?>
HtmlOpenSig == <<"<", "h", "t", "m", "l">>

\* ">", the end of <html[\s\S]*?>
TagEnd == <<">">>

\* "</html>"
HtmlCloseSig == <<"<", "/", "h", "t", "m", "l", ">">>

\* case folding of the i flag, on the letters the texts of the model use
Lower(c) ==
  CASE c = "D" -> "d" [] c = "O" -> "o" [] c = "C" -> "c" [] c = "T" -> "t"
    [] c = "Y" -> "y" [] c = "P" -> "p" [] c = "E" -> "e" [] c = "H" -> "h"
    [] c = "M" -> "m" [] c = "L" -> "l" [] OTHER -> c

\* pat matches buf at position i, case-sensitively
StartsAt(buf, i, pat) ==
  /\ i >= 1
  /\ i + Len(pat) - 1 <= Len(buf)
  /\ \A k \in 1..Len(pat) : buf[i + k - 1] = pat[k]

\* pat (lower case) matches buf at position i under the i flag
StartsAtCI(buf, i, pat) ==
  /\ i >= 1
  /\ i + Len(pat) - 1 <= Len(buf)
  /\ \A k \in 1..Len(pat) : Lower(buf[i + k - 1]) = pat[k]

\* mutant: the greedy scan of [\s\S]* followed by pat, the last position >= from
\* where pat matches
FindLastFrom(buf, pat, from) ==
  IF \E k \in from..Len(buf) : StartsAt(buf, k, pat)
  THEN CHOOSE k \in from..Len(buf) :
         /\ StartsAt(buf, k, pat)
         /\ \A m \in (k + 1)..Len(buf) : ~StartsAt(buf, m, pat)
  ELSE 0

\* the lazy scan of [\s\S]*? followed by pat: the first position >= from where
\* pat matches, 0 when there is none
RECURSIVE FindFrom(_, _, _)
FindFrom(buf, pat, from) ==
  IF from + Len(pat) - 1 > Len(buf) THEN 0
  ELSE IF StartsAt(buf, from, pat) THEN from
  ELSE FindFrom(buf, pat, from + 1)

RECURSIVE FindFromCI(_, _, _)
FindFromCI(buf, pat, from) ==
  IF from + Len(pat) - 1 > Len(buf) THEN 0
  ELSE IF StartsAtCI(buf, from, pat) THEN from
  ELSE FindFromCI(buf, pat, from + 1)

NoMatch == [found |-> FALSE, text |-> <<>>]

\* mutant: the group runs up to the backquotes, /```html\n([\s\S]*?\n)```/, and
\* keeps the line feed before them
FencedGroupWithLineFeed(buf, i, j) ==
  IF j # 0 THEN [found |-> TRUE, text |-> SubSeq(buf, i + Len(FenceOpen), j)]
  ELSE NoMatch

\* the capture group of a match that opens at i and closes at j
FencedGroup(buf, i, j) ==
  IF j # 0 THEN [found |-> TRUE, text |-> SubSeq(buf, i + Len(FenceOpen), j - 1)]
  ELSE NoMatch

\* accumulatedContent.match(/```html\n([\s\S]*?)\n```/), tried at start
\* positions i, i+1, ...; text is the capture group htmlMatch[1]
RECURSIVE FencedFrom(_, _)
FencedFrom(buf, i) ==
  IF i > Len(buf) THEN NoMatch
  ELSE IF StartsAt(buf, i, FenceOpen)
          /\ FindFrom(buf, FenceClose, i + Len(FenceOpen)) # 0
       THEN FencedGroup(buf, i, FindFrom(buf, FenceClose, i + Len(FenceOpen)))
       ELSE FencedFrom(buf, i + 1)

\* mutant: the closing marker is optional, /```html\n([\s\S]*?)(?:\n```|$)/
htmlMatchOpenEnded(buf) ==
  IF FencedFrom(buf, 1).found THEN FencedFrom(buf, 1)
  ELSE IF FindFrom(buf, FenceOpen, 1) # 0
       THEN [found |-> TRUE,
             text  |-> SubSeq(buf, FindFrom(buf, FenceOpen, 1) + Len(FenceOpen), Len(buf))]
       ELSE NoMatch

htmlMatch(buf) == FencedFrom(buf, 1)

\* the position after (?:<!DOCTYPE html>|<html[\s\S]*?>) matched at i, 0 when
\* neither alternative matches at i
HeadEnd(buf, i) ==
  IF StartsAtCI(buf, i, DoctypeSig) THEN i + Len(DoctypeSig)
  ELSE IF StartsAtCI(buf, i, HtmlOpenSig)
          /\ FindFrom(buf, TagEnd, i + Len(HtmlOpenSig)) # 0
       THEN FindFrom(buf, TagEnd, i + Len(HtmlOpenSig)) + 1
       ELSE 0

\* [\s\S]*?(?:<\/html>|$) from position p: the last position of the match
TailEnd(buf, p) ==
  IF FindFromCI(buf, HtmlCloseSig, p) # 0
  THEN FindFromCI(buf, HtmlCloseSig, p) + Len(HtmlCloseSig) - 1
  ELSE Len(buf)

\* accumulatedContent.match(/(?:<!DOCTYPE html>|<html[\s\S]*?>)[\s\S]*?(?:<\/html>|$)/i);
\* text is the whole match directHtmlMatch[0]
RECURSIVE DirectFrom(_, _)
DirectFrom(buf, i) ==
  IF i > Len(buf) THEN NoMatch
  ELSE IF HeadEnd(buf, i) # 0
       THEN [found |-> TRUE, text |-> SubSeq(buf, i, TailEnd(buf, HeadEnd(buf, i)))]
       ELSE DirectFrom(buf, i + 1)

directHtmlMatch(buf) == DirectFrom(buf, 1)

\* if (directHtmlMatch) { currentHtml = directHtmlMatch[0]; ... }
DirectResult(d) ==
  IF d.found THEN [confidence |-> "raw-fallback", html |-> d.text]
  ELSE [confidence |-> "none", html |-> <<>>]

\* if (htmlMatch) { currentHtml = htmlMatch[1]; ... } else { ...direct... }
FencedResult(h, buf) ==
  IF h.found THEN [confidence |-> "fenced", html |-> h.text]
  ELSE DirectResult(directHtmlMatch(buf))

\* mutant: the raw document is looked for before the fenced block
ExtractionResultRawFirst(buf) ==
  IF directHtmlMatch(buf).found THEN DirectResult(directHtmlMatch(buf))
  ELSE IF htmlMatch(buf).found
       THEN [confidence |-> "fenced", html |-> htmlMatch(buf).text]
       ELSE [confidence |-> "none", html |-> <<>>]

\* the extraction block: the fenced block first, the raw document otherwise
ExtractionResult(buf) == FencedResult(htmlMatch(buf), buf)

(***************************************************************************)
(* The event stream.  A chunk is a sequence of wire units, each standing   *)
(* for a piece of ASCII text of the response body:                         *)
(*   "data"  the marker 'data: '         "nl"    a line feed               *)
(*   "done"  the sentinel '[DONE]'       "bad"   '{not json}'              *)
(*   "open"  '{"content":"'              "close" '"}'                      *)
(*   "other" '{"role":"assistant"}', an envelope without a content field   *)
(* and, between "open" and "close", the names of text fragments (the JSON  *)
(* encoding of the fragment's text).                                       *)
(***************************************************************************)
FragNames == {"fT", "fM", "fN", "fH", "fE", "fD", "fX", "fP", "fU"}

\* the text a fragment stands for, after JSON.parse
Text(f) ==
  CASE f = "fT" -> <<BQ, BQ, BQ>>
    [] f = "fM" -> <<"h", "t", "m", "l", "\n">>
    [] f = "fN" -> <<"\n">>
    [] f = "fH" -> <<"<", "h", "t", "m", "l", ">">>
    [] f = "fE" -> <<"<", "/", "h", "t", "m", "l", ">">>
    [] f = "fD" -> <<"<", "!", "D", "O", "C", "T", "Y", "P", "E", " ", "h", "t", "m", "l", ">">>
    [] f = "fX" -> <<"H", "i">>
    [] f = "fP" -> <<"<", "h", "t", "m", "l">>
    [] f = "fU" -> <<"<", "H", "T", "M", "L", ">">>
    [] OTHER -> <<>>

RECURSIVE TextOf(_)
TextOf(fs) == IF fs = <<>> THEN <<>> ELSE Text(Head(fs)) \o TextOf(Tail(fs))

\* chunk.split('\n')
RECURSIVE split(_)
split(chunk) ==
  IF \E k \in 1..Len(chunk) : chunk[k] = "nl"
  THEN LET k == CHOOSE k \in 1..Len(chunk) :
                  chunk[k] = "nl" /\ \A j \in 1..(k - 1) : chunk[j] # "nl"
       IN  <<SubSeq(chunk, 1, k - 1)>> \o split(SubSeq(chunk, k + 1, Len(chunk)))
  ELSE <<chunk>>

\* JSON.parse(data) followed by the read of parsed.content:
\* threw is TRUE when JSON.parse throws, content is "" when there is no content
JSONParse(data) ==
  IF /\ Len(data) >= 2
     /\ data[1] = "open"
     /\ data[Len(data)] = "close"
     /\ \A k \in 2..(Len(data) - 1) : data[k] \in FragNames
  THEN [threw |-> FALSE, content |-> TextOf(SubSeq(data, 2, Len(data) - 1))]
  ELSE IF data = <<"other">>
       THEN [threw |-> FALSE, content |-> <<>>]
       ELSE [threw |-> TRUE, content |-> <<>>]

(***************************************************************************)
(* The locals of one handleSend call inside the read loop:                 *)
(*   acc     accumulatedContent          cur    currentHtml                *)
(*   preview the last value given to setPreviewHtml                        *)
(*   errs    calls of console.error('Error parsing chunk:', e)             *)
(*   deltas  the contents appended to accumulatedContent, in order         *)
(* A turn also records wire, the response body as reader.read() has        *)
(* delivered it so far (the chunks, concatenated).                         *)
(***************************************************************************)
\* mutant: setPreviewHtml(currentHtml) is called after both branches, also when
\* neither expression matched
ExtractedAlwaysSet(L, r) ==
  IF r.confidence = "none" THEN [L EXCEPT !.preview = L.cur]
  ELSE [L EXCEPT !.cur = r.html, !.preview = r.html]

\* setPreviewHtml(currentHtml) when the extraction found a document
Extracted(L, r) ==
  IF r.confidence = "none" THEN L
  ELSE [L EXCEPT !.cur = r.html, !.preview = r.html]

\* mutant: the document is looked for in the delta, not in the accumulated content
ProcessDeltaAlone(L, content) ==
  IF content = <<>> THEN L
  ELSE Extracted([L EXCEPT !.acc = @ \o content, !.deltas = Append(@, content)],
                 ExtractionResult(content))

\* mutant: accumulatedContent = parsed.content + accumulatedContent
ProcessDeltaPrepends(L, content) ==
  IF content = <<>> THEN L
  ELSE Extracted([L EXCEPT !.acc = content \o @, !.deltas = Append(@, content)],
                 ExtractionResult(content \o L.acc))

\* if (parsed.content) { accumulatedContent += parsed.content; ...extract... }
ProcessDelta(L, content) ==
  IF content = <<>> THEN L
  ELSE Extracted([L EXCEPT !.acc = @ \o content, !.deltas = Append(@, content)],
                 ExtractionResult(L.acc \o content))

\* the body of for (const line of lines)
ProcessLine(L, line) ==
  IF Len(line) >= 1 /\ line[1] = "data"
  THEN LET data == Tail(line) IN
       IF data = <<"done">> THEN L
       ELSE IF JSONParse(data).threw
            THEN [L EXCEPT !.errs = @ + 1]
            ELSE ProcessDelta(L, JSONParse(data).content)
  ELSE L

\* mutant: one try/catch around the whole loop, so a line that fails to parse
\* ends the processing of the chunk
RECURSIVE ProcessLinesOneTry(_, _)
ProcessLinesOneTry(L, lines) ==
  IF lines = <<>> THEN L
  ELSE IF ProcessLine(L, Head(lines)).errs # L.errs
       THEN ProcessLine(L, Head(lines))
       ELSE ProcessLinesOneTry(ProcessLine(L, Head(lines)), Tail(lines))

RECURSIVE ProcessLines(_, _)
ProcessLines(L, lines) ==
  IF lines = <<>> THEN L
  ELSE ProcessLines(ProcessLine(L, Head(lines)), Tail(lines))

\* one iteration of while (true) with done = false
ProcessChunk(L, chunk) == ProcessLines(L, split(chunk))

(***************************************************************************)
(* State of the Home component.                                            *)
(***************************************************************************)
VARIABLES
  messages,        \* useState: the message sequence
  input,           \* useState: the text of the input field
  isLoading,       \* useState: the busy flag
  previewHtml,     \* useState: the RenderSnapshot, the html prop of Preview
  isResizing,      \* useState: the drag state (TRUE is dragging)
  leftPanelWidth,  \* useState: a percentage, the rational num / den
  listening,       \* the window listeners of the drag: how many are registered
  mounted,         \* the Home component is mounted
  turns,           \* the handleSend calls past their guard and not yet ended
  requests,        \* POST /api/chat requests issued so far
  clearPending,    \* POST /api/chat/clear calls awaiting their response
  chunksRead,      \* chunks delivered by reader.read() so far
  lastOp,          \* the chat handler or continuation that ran last
  srcdoc,          \* Preview: the srcdoc attribute of the iframe
  timers,          \* Preview: the contents the pending setTimeout callbacks hold
  clicks,          \* Preview: clicks the wrapper of the surface has handled
  toasts,          \* Preview: calls of toast.warn so far
  relay            \* the clear route: its POST handler and the answer it gave

vars == <<messages, input, isLoading, previewHtml, isResizing, leftPanelWidth,
          listening, mounted, turns, requests, clearPending, chunksRead, lastOp,
          srcdoc, timers, clicks, toasts, relay>>

chatVars == <<messages, input, isLoading, previewHtml, turns, requests, clearPending,
              chunksRead>>

dragVars == <<isResizing, leftPanelWidth, listening, mounted>>

previewVars == <<srcdoc, timers, clicks, toasts>>

\* window before any addEventListener of the component
NoListeners == [mousemove |-> 0, mouseup |-> 0]

\* the clear route before its first request
RelayIdle ==
  [pc |-> "idle", calls |-> 0, answer |-> <<>>, response |-> <<>>, logged |-> 0]

\* what the user can type into the input field
Inputs == {<<" ">>, <<"h", "i">>}

\* input.trim() is the empty string
IsBlank(s) == \A k \in 1..Len(s) : s[k] \in {" ", "\n", "\t"}

\* const [leftPanelWidth, setLeftPanelWidth] = useState(35)
InitialLeftWidth == 35

\* newLeftPanelWidth >= 30 && newLeftPanelWidth <= 70
MinLeftWidth == 30

MaxLeftWidth == 70

\* e.clientX of the pointer events of Spec: 25%, 30% and 75% of a container of 200
ClientXs == {50, 60, 150}

\* containerRef.current.getBoundingClientRect(): left and width
Rects == {[left |-> 0, width |-> 200], [left |-> 0, width |-> 0]}

\* <iframe srcDoc={html}>: a render whose html prop differs from that of the
\* render before it assigns the attribute, a render with the same prop leaves
\* the attribute as it is
Rendered(html) == IF html # previewHtml THEN html ELSE srcdoc

\* a handleSend call that awaits fetch
NewTurn ==
  [pc |-> "fetch", acc |-> <<>>, cur |-> <<>>, errs |-> 0, deltas |-> <<>>, wire |-> <<>>]

Remove(seq, i) == SubSeq(seq, 1, i - 1) \o SubSeq(seq, i + 1, Len(seq))

Init ==
  /\ messages = <<GreetingMessage>>
  /\ input = <<>>
  /\ isLoading = FALSE
  /\ previewHtml = defaultHTML
  /\ isResizing = FALSE
  /\ leftPanelWidth = [num |-> InitialLeftWidth, den |-> 1]
  /\ listening = NoListeners
  /\ mounted = TRUE
  /\ turns = <<>>
  /\ requests = 0
  /\ clearPending = 0
  /\ chunksRead = 0
  /\ lastOp = "init"
  /\ srcdoc = defaultHTML
  /\ timers = <<>>
  /\ clicks = 0
  /\ toasts = 0
  /\ relay = RelayIdle

(***************************************************************************)
(* The chat turn: handleSend and its continuations.                        *)
(***************************************************************************)
\* onChange={e => setInput(e.target.value)} of an input that is disabled={isLoading}
ChangeInput ==
  /\ ~isLoading
  /\ \E v \in Inputs : v # input /\ input' = v
  /\ UNCHANGED <<messages, isLoading, previewHtml, turns, requests, clearPending,
                 chunksRead, lastOp>>
  /\ UNCHANGED dragVars
  /\ UNCHANGED relay
  /\ UNCHANGED previewVars

\* mutant: the early return is missing
SendRejectedNever == FALSE

\* if (!input.trim() || isLoading) return;
SendRejected == IsBlank(input) \/ isLoading

\* mutant: setIsLoading(true) is missing
HandleSendNotBusy ==
  /\ IF SendRejected
     THEN /\ lastOp' = "handleSend:rejected"
          /\ UNCHANGED chatVars
     ELSE /\ requests < MaxRequests
          /\ messages' = Append(messages, [role |-> "user", content |-> input])
          /\ input' = <<>>
          /\ turns' = Append(turns, NewTurn)
          /\ requests' = requests + 1
          /\ lastOp' = "handleSend"
          /\ UNCHANGED <<isLoading, previewHtml, clearPending, chunksRead>>
  /\ UNCHANGED dragVars
  /\ UNCHANGED relay
  /\ UNCHANGED previewVars

\* handleSend up to its first await.  React re-renders after every event handler
\* and before the next event is dispatched, so the handler of a submit closes
\* over the input and isLoading of the current state.
HandleSend ==
  /\ IF SendRejected
     THEN /\ lastOp' = "handleSend:rejected"
          /\ UNCHANGED chatVars
     ELSE /\ requests < MaxRequests
          /\ messages' = Append(messages, [role |-> "user", content |-> input])
          /\ input' = <<>>
          /\ isLoading' = TRUE
          /\ turns' = Append(turns, NewTurn)
          /\ requests' = requests + 1
          /\ lastOp' = "handleSend"
          /\ UNCHANGED <<previewHtml, clearPending, chunksRead>>
  /\ UNCHANGED dragVars
  /\ UNCHANGED relay
  /\ UNCHANGED previewVars

\* mutant: setIsLoading(false) sits at the end of the try block, not in finally
CatchStaysBusy(i) ==
  /\ messages' = Append(messages, [role |-> "assistant", content |-> Fallback])
  /\ turns' = Remove(turns, i)
  /\ UNCHANGED <<input, isLoading, previewHtml, requests, clearPending, chunksRead>>

\* mutant: the catch block appends what was accumulated before the fallback
CatchKeepsPartial(i) ==
  /\ messages' = Append(Append(messages, [role |-> "assistant", content |-> turns[i].acc]),
                        [role |-> "assistant", content |-> Fallback])
  /\ isLoading' = FALSE
  /\ turns' = Remove(turns, i)
  /\ UNCHANGED <<input, previewHtml, requests, clearPending, chunksRead>>

\* catch (error) { setMessages(prev => [...prev, fallback]) } finally { setIsLoading(false) }
Catch(i) ==
  /\ messages' = Append(messages, [role |-> "assistant", content |-> Fallback])
  /\ isLoading' = FALSE
  /\ turns' = Remove(turns, i)
  /\ UNCHANGED <<input, previewHtml, requests, clearPending, chunksRead>>

\* what the awaited fetch can deliver
FetchOutcomes == {"rejected", "status", "nobody", "stream"}

\* the continuation of await fetch(...): the two checks of the response
FetchSettles(i) ==
  /\ turns[i].pc = "fetch"
  /\ \E o \in FetchOutcomes :
       IF o = "stream"
       THEN /\ turns' = [turns EXCEPT ![i].pc = "read"]
            /\ lastOp' = "fetch:stream"
            /\ UNCHANGED <<messages, input, isLoading, previewHtml, requests,
                           clearPending, chunksRead>>
       ELSE /\ Catch(i)
            /\ lastOp' = "catch:" \o o
  /\ UNCHANGED dragVars
  /\ UNCHANGED relay
  /\ UNCHANGED previewVars

\* the continuation of await reader.read() with done = false
ReadChunk(i, chunk) ==
  /\ turns[i].pc = "read"
  /\ \E L \in {ProcessChunk([acc |-> turns[i].acc, cur |-> turns[i].cur,
                               errs |-> turns[i].errs, deltas |-> turns[i].deltas,
                               preview |-> previewHtml], chunk)} :
       /\ turns' = [turns EXCEPT ![i].acc = L.acc, ![i].cur = L.cur,
                                 ![i].errs = L.errs, ![i].deltas = L.deltas,
                                 ![i].wire = @ \o chunk]
       /\ previewHtml' = L.preview
       /\ srcdoc' = Rendered(L.preview)
  /\ chunksRead' = chunksRead + 1
  /\ lastOp' = "read:chunk"
  /\ UNCHANGED <<messages, input, isLoading, requests, clearPending>>
  /\ UNCHANGED dragVars
  /\ UNCHANGED relay
  /\ UNCHANGED <<timers, clicks, toasts>>

\* mutant: the loop ends without the setMessages call after it
ReadDoneSilent(i) ==
  /\ turns[i].pc = "read"
  /\ isLoading' = FALSE
  /\ turns' = Remove(turns, i)
  /\ lastOp' = "read:done"
  /\ UNCHANGED <<messages, input, previewHtml, requests, clearPending, chunksRead>>
  /\ UNCHANGED dragVars
  /\ UNCHANGED relay
  /\ UNCHANGED previewVars

\* the continuation of await reader.read() with done = true
ReadDone(i) ==
  /\ turns[i].pc = "read"
  /\ messages' = Append(messages, [role |-> "assistant", content |-> turns[i].acc])
  /\ isLoading' = FALSE
  /\ turns' = Remove(turns, i)
  /\ lastOp' = "read:done"
  /\ UNCHANGED <<input, previewHtml, requests, clearPending, chunksRead>>
  /\ UNCHANGED dragVars
  /\ UNCHANGED relay
  /\ UNCHANGED previewVars

\* await reader.read() rejects
ReadError(i) ==
  /\ turns[i].pc = "read"
  /\ Catch(i)
  /\ lastOp' = "catch:read"
  /\ UNCHANGED dragVars
  /\ UNCHANGED relay
  /\ UNCHANGED previewVars

(***************************************************************************)
(* handleClearAll.                                                         *)
(***************************************************************************)
\* mutant: the reset waits for the backend, so nothing is reset by the handler
HandleClearAllDeferred ==
  /\ clearPending < MaxClears
  /\ clearPending' = clearPending + 1
  /\ lastOp' = "handleClearAll"
  /\ UNCHANGED <<messages, previewHtml, input, isLoading, turns, requests, chunksRead>>
  /\ UNCHANGED dragVars
  /\ UNCHANGED relay
  /\ UNCHANGED previewVars

HandleClearAll ==
  /\ clearPending < MaxClears
  /\ messages' = <<GreetingMessage>>
  /\ previewHtml' = defaultHTML
  /\ srcdoc' = Rendered(defaultHTML)
  /\ input' = <<>>
  /\ clearPending' = clearPending + 1
  /\ lastOp' = "handleClearAll"
  /\ UNCHANGED <<isLoading, turns, requests, chunksRead>>
  /\ UNCHANGED dragVars
  /\ UNCHANGED relay
  /\ UNCHANGED <<timers, clicks, toasts>>

\* what the awaited fetch of the clear call can deliver
ClearOutcomes == {"ok", "status", "rejected"}

\* the continuation of await fetch('.../api/chat/clear'): only a rejection is
\* caught, and it is logged
ClearSettles ==
  /\ clearPending > 0
  /\ clearPending' = clearPending - 1
  /\ \E o \in ClearOutcomes :
       lastOp' = IF o = "rejected" THEN "clear:logged" ELSE "clear:settled"
  /\ UNCHANGED <<messages, input, isLoading, previewHtml, turns, requests, chunksRead>>
  /\ UNCHANGED dragVars
  /\ UNCHANGED relay
  /\ UNCHANGED previewVars

(***************************************************************************)
(* The split-pane drag.                                                    *)
(***************************************************************************)
\* useEffect of the drag: registration and cleanup of the window listeners
\* mutant: the effect returns no cleanup function
CleanupMissing(was, l) == l

\* the function the effect returns, for the render whose isResizing is was:
\* removeEventListener for the handleMouseMove of that render, which is
\* registered when the effect of that render added it, and for handleMouseUp,
\* which is the same function in every render (useCallback with no dependency)
Cleanup(was, l) ==
  [mousemove |-> IF was /\ l.mousemove > 0 THEN l.mousemove - 1 ELSE l.mousemove,
   mouseup   |-> 0]

\* the body of the effect, for the render whose isResizing is now:
\* addEventListener for a handleMouseMove that is new in this render and for
\* handleMouseUp, which the window holds once however often it is added
Effect(now, l) ==
  IF now THEN [mousemove |-> l.mousemove + 1, mouseup |-> 1] ELSE l

\* onMouseDown of the divider: setIsResizing(true); when this changes the
\* state, the render runs the cleanup of the effect before it and then the effect
HandleMouseDown ==
  /\ mounted
  /\ isResizing' = TRUE
  /\ listening' = IF isResizing THEN listening
                  ELSE Effect(TRUE, Cleanup(FALSE, listening))
  /\ UNCHANGED <<leftPanelWidth, mounted>>
  /\ UNCHANGED <<chatVars, lastOp>>
  /\ UNCHANGED previewVars
  /\ UNCHANGED relay

\* ((e.clientX - containerRect.left) / containerRect.width) * 100
NewLeftPanelWidth(clientX, rect) ==
  [num |-> (clientX - rect.left) * 100, den |-> rect.width]

\* mutant: the upper limit is not tested
WidthAcceptedNoMax(w) ==
  /\ w.den > 0
  /\ w.num >= MinLeftWidth * w.den

\* newLeftPanelWidth >= 30 && newLeftPanelWidth <= 70; a division by 0 gives
\* Infinity or NaN, for which the test is false
WidthAccepted(w) ==
  /\ w.den > 0
  /\ w.num >= MinLeftWidth * w.den
  /\ w.num <= MaxLeftWidth * w.den

\* mutant: a value outside the limits moves the width to the nearest limit
MouseMoveClamps(clientX, rect) ==
  /\ IF listening.mousemove > 0 /\ isResizing /\ rect.width > 0
     THEN leftPanelWidth' =
            IF WidthAccepted(NewLeftPanelWidth(clientX, rect))
            THEN NewLeftPanelWidth(clientX, rect)
            ELSE IF (clientX - rect.left) * 100 < MinLeftWidth * rect.width
                 THEN [num |-> MinLeftWidth, den |-> 1]
                 ELSE [num |-> MaxLeftWidth, den |-> 1]
     ELSE UNCHANGED leftPanelWidth
  /\ UNCHANGED <<isResizing, listening, mounted>>
  /\ UNCHANGED <<chatVars, lastOp>>
  /\ UNCHANGED previewVars
  /\ UNCHANGED relay

\* mutant: the handler does not look at isResizing
MouseMoveWhileIdle(clientX, rect) ==
  /\ IF WidthAccepted(NewLeftPanelWidth(clientX, rect))
     THEN leftPanelWidth' = NewLeftPanelWidth(clientX, rect)
     ELSE UNCHANGED leftPanelWidth
  /\ UNCHANGED <<isResizing, listening, mounted>>
  /\ UNCHANGED <<chatVars, lastOp>>
  /\ UNCHANGED previewVars
  /\ UNCHANGED relay

\* a mousemove on the window; handleMouseMove runs when it is registered
MouseMove(clientX, rect) ==
  /\ IF listening.mousemove > 0 /\ isResizing
        /\ WidthAccepted(NewLeftPanelWidth(clientX, rect))
     THEN leftPanelWidth' = NewLeftPanelWidth(clientX, rect)
     ELSE UNCHANGED leftPanelWidth
  /\ UNCHANGED <<isResizing, listening, mounted>>
  /\ UNCHANGED <<chatVars, lastOp>>
  /\ UNCHANGED previewVars
  /\ UNCHANGED relay

\* a mouseup on the window; handleMouseUp runs when it is registered
MouseUp ==
  /\ IF listening.mouseup > 0
     THEN /\ isResizing' = FALSE
          /\ listening' = IF isResizing THEN Effect(FALSE, Cleanup(TRUE, listening))
                          ELSE listening
     ELSE UNCHANGED <<isResizing, listening>>
  /\ UNCHANGED <<leftPanelWidth, mounted>>
  /\ UNCHANGED <<chatVars, lastOp>>
  /\ UNCHANGED previewVars
  /\ UNCHANGED relay

\* the component is unmounted: the cleanup of the last effect runs, and the
\* state of the component is set by no handler any more
Unmount ==
  /\ mounted
  /\ mounted' = FALSE
  /\ listening' = Cleanup(isResizing, listening)
  /\ UNCHANGED <<isResizing, leftPanelWidth>>
  /\ UNCHANGED <<chatVars, lastOp>>
  /\ UNCHANGED previewVars
  /\ UNCHANGED relay

(***************************************************************************)
(* The Preview component (src/src/components/Preview.tsx).                 *)
(***************************************************************************)
\* <Preview html={previewHtml} isResizing={isResizing} isAiWorking={isLoading} />
isAiWorking == isLoading

\* mutant: only the busy flag takes the pointer events from the iframe
IframePointerEventsNoneBusyOnly == isAiWorking

\* className of the iframe: "pointer-events-none": isResizing || isAiWorking
IframePointerEventsNone == isResizing \/ isAiWorking

\* mutant: the handler stops the event and shows nothing
PreviewClickSilent ==
  /\ clicks < MaxClicks
  /\ clicks' = clicks + 1
  /\ UNCHANGED <<srcdoc, timers, toasts>>
  /\ UNCHANGED <<chatVars, lastOp>>
  /\ UNCHANGED dragVars
  /\ UNCHANGED relay

\* onClick of the wrapper of the surface.  A click reaches the wrapper when the
\* iframe has no pointer events, and also from the keyboard or from the button
\* inside the wrapper; the handler tests isAiWorking only.
PreviewClick ==
  /\ clicks < MaxClicks
  /\ clicks' = clicks + 1
  /\ toasts' = IF isAiWorking THEN toasts + 1 ELSE toasts
  /\ UNCHANGED <<srcdoc, timers>>
  /\ UNCHANGED <<chatVars, lastOp>>
  /\ UNCHANGED dragVars
  /\ UNCHANGED relay

\* mutant: the content is read after the attribute was emptied
HandleRefreshIframeReadsLate ==
  /\ ~isAiWorking
  /\ Len(timers) < MaxPendingReloads
  /\ timers' = Append(timers, <<>>)
  /\ srcdoc' = <<>>
  /\ UNCHANGED <<clicks, toasts>>
  /\ UNCHANGED <<chatVars, lastOp>>
  /\ UNCHANGED dragVars
  /\ UNCHANGED relay

\* handleRefreshIframe, the onClick of the button that is rendered when
\* isAiWorking is false: content = iframe.srcdoc; iframe.srcdoc = ""; setTimeout
HandleRefreshIframe ==
  /\ ~isAiWorking
  /\ Len(timers) < MaxPendingReloads
  /\ timers' = Append(timers, srcdoc)
  /\ srcdoc' = <<>>
  /\ UNCHANGED <<clicks, toasts>>
  /\ UNCHANGED <<chatVars, lastOp>>
  /\ UNCHANGED dragVars
  /\ UNCHANGED relay

\* the callback of setTimeout(..., 10): iframe.srcdoc = content; the callbacks
\* have the same delay and run in the order they were set
RefreshTimerFires ==
  /\ timers # <<>>
  /\ srcdoc' = Head(timers)
  /\ timers' = Tail(timers)
  /\ UNCHANGED <<clicks, toasts>>
  /\ UNCHANGED <<chatVars, lastOp>>
  /\ UNCHANGED dragVars
  /\ UNCHANGED relay

(***************************************************************************)
(* The clear route (src/src/app/api/chat/clear/route.ts).  A JSON value is *)
(* a record: kind is "object", "null" or, for a body that is not JSON,     *)
(* "text"; an object has a message field and a detail field, each a record *)
(* [type, text] with type "absent", "string" or "object".                  *)
(***************************************************************************)
Absent == [type |-> "absent", text |-> ""]

Str(t) == [type |-> "string", text |-> t]

\* the detail fields the backend can send: none, an empty string, a text, an object
Details ==
  {Absent, Str(""), Str("Context store unavailable"), [type |-> "object", text |-> ""]}

\* the bodies the backend can send
Bodies ==
  {[kind |-> "object", message |-> m, detail |-> d] :
     m \in {Absent, Str("Chat context cleared")}, d \in Details}
  \cup {[kind |-> "null", message |-> Absent, detail |-> Absent],
        [kind |-> "text", message |-> Absent, detail |-> Absent]}

\* the status lines the backend can send
Statuses == {200, 201, 404, 500}

\* what the awaited fetch of the route delivers: a response, or a rejection
\* with the message of its Error
Answers ==
  {[kind |-> "response", status |-> st, body |-> b, message |-> ""] :
     st \in Statuses, b \in Bodies}
  \cup {[kind |-> "rejected", status |-> 0, body |-> <<>>, message |-> m] :
          m \in {"fetch failed", ""}}

\* response.ok
Ok(status) == status >= 200 /\ status <= 299

\* the truthiness of error.detail
Truthy(d) == (d.type = "string" /\ d.text # "") \/ d.type = "object"

\* the message of new Error(x): String(x)
ErrorMessage(d) == IF d.type = "object" THEN "[object Object]" ELSE d.text

\* mutant: the catch block answers without a status
CaughtAsSuccess(message) == [status |-> 200, body |-> [error |-> message]]

\* catch (error): NextResponse.json({ error: error.message }, { status: 500 });
\* everything thrown in the try block is an Error
Caught(message) == [status |-> 500, body |-> [error |-> message]]

\* the try block from the settled fetch on: what the handler returns for the
\* response a
Relayed(a) ==
  IF a.body.kind = "text"
  THEN Caught("Unexpected token < in JSON at position 0")
  ELSE IF ~Ok(a.status)
       THEN IF a.body.kind = "null"
            THEN Caught("Cannot read properties of null (reading 'detail')")
            ELSE IF Truthy(a.body.detail)
                 THEN Caught(ErrorMessage(a.body.detail))
                 ELSE Caught("Failed to clear chat context")
       ELSE [status |-> 200, body |-> a.body]

\* POST is called: await fetch(`${BACKEND_URL}/api/chat/clear`, ...)
RelayPost ==
  /\ relay.pc \in {"idle", "done"}
  /\ relay.calls < MaxRelayCalls
  /\ relay' = [relay EXCEPT !.pc = "fetch", !.calls = @ + 1, !.answer = <<>>,
                            !.response = <<>>]
  /\ UNCHANGED <<chatVars, lastOp>>
  /\ UNCHANGED dragVars
  /\ UNCHANGED previewVars

\* the continuation of await fetch: a rejection goes to the catch block, a
\* response to await response.json()
RelayFetchSettles(a) ==
  /\ relay.pc = "fetch"
  /\ relay' = IF a.kind = "rejected"
              THEN [relay EXCEPT !.pc = "done", !.answer = a,
                                 !.response = Caught(a.message), !.logged = @ + 1]
              ELSE [relay EXCEPT !.pc = "json", !.answer = a]
  /\ UNCHANGED <<chatVars, lastOp>>
  /\ UNCHANGED dragVars
  /\ UNCHANGED previewVars

\* the continuation of await response.json(), in either branch of !response.ok
RelayJsonSettles ==
  /\ relay.pc = "json"
  /\ relay' = [relay EXCEPT
                 !.pc = "done",
                 !.response = Relayed(relay.answer),
                 !.logged = IF Relayed(relay.answer).status = 200 THEN @ ELSE @ + 1]
  /\ UNCHANGED <<chatVars, lastOp>>
  /\ UNCHANGED dragVars
  /\ UNCHANGED previewVars

(***************************************************************************)
(* The specification of the page.                                          *)
(***************************************************************************)
\* a delta line 'data: {"content":"..."}\n' carrying the fragments fs
DeltaLine(fs) == <<"data", "open">> \o fs \o <<"close", "nl">>

\* the chunks the backend sends in Spec: a fenced document followed by the
\* sentinel line, two deltas with a malformed line between them, and a delta
\* of plain text
Chunks ==
  { DeltaLine(<<"fT", "fM", "fH", "fN", "fT">>) \o <<"data", "done", "nl">>,
    DeltaLine(<<"fH">>) \o <<"data", "bad", "nl">> \o DeltaLine(<<"fX">>),
    DeltaLine(<<"fX">>) }

Next ==
  \/ ChangeInput
  \/ HandleSend
  \/ \E i \in 1..Len(turns) : FetchSettles(i)
  \/ \E i \in 1..Len(turns) : \E chunk \in Chunks :
       chunksRead < MaxChunks /\ ReadChunk(i, chunk)
  \/ \E i \in 1..Len(turns) : ReadDone(i)
  \/ \E i \in 1..Len(turns) : ReadError(i)
  \/ HandleClearAll
  \/ ClearSettles
  \/ HandleMouseDown
  \/ \E clientX \in ClientXs, rect \in Rects : MouseMove(clientX, rect)
  \/ MouseUp

Spec == Init /\ [][Next]_vars

(***************************************************************************)
(* The specification of one turn's extraction: the page is in the read     *)
(* loop of its first turn and the backend sends one delta line per chunk,  *)
(* the deltas drawn from ExtDeltas; the user does nothing meanwhile and    *)
(* the stream stays open.                                                  *)
(***************************************************************************)
\* the deltas of SpecExtract: the opening fence whole and in two pieces, the
\* closing fence, root tags in both cases, a doctype, an unfinished root tag, text
ExtDeltas ==
  { <<"fT", "fM">>, <<"fT">>, <<"fM">>, <<"fN", "fT">>, <<"fH">>, <<"fE">>,
    <<"fD">>, <<"fX">>, <<"fP">>, <<"fU">> }

ExtInit ==
  /\ messages = <<GreetingMessage, [role |-> "user", content |-> <<"h", "i">>]>>
  /\ input = <<>>
  /\ isLoading = TRUE
  /\ previewHtml = defaultHTML
  /\ isResizing = FALSE
  /\ leftPanelWidth = [num |-> InitialLeftWidth, den |-> 1]
  /\ listening = NoListeners
  /\ mounted = TRUE
  /\ turns = <<[NewTurn EXCEPT !.pc = "read"]>>
  /\ requests = 1
  /\ clearPending = 0
  /\ chunksRead = 0
  /\ lastOp = "fetch:stream"
  /\ srcdoc = defaultHTML
  /\ timers = <<>>
  /\ clicks = 0
  /\ toasts = 0
  /\ relay = RelayIdle

ExtNext ==
  \E i \in 1..Len(turns) : \E d \in ExtDeltas :
    chunksRead < MaxDeltas /\ ReadChunk(i, DeltaLine(d))

SpecExtract == ExtInit /\ [][ExtNext]_vars

(***************************************************************************)
(* The specifications of the page with its Preview, up to the end of the   *)
(* first turn.                                                             *)
(*   SpecPreview  the chat handlers, the press and release of the divider  *)
(*                and the clicks on the surface                            *)
(*   SpecReload   the chat handlers, the reload button and its timer       *)
(***************************************************************************)
PreviewNext ==
  \/ ChangeInput
  \/ requests = 0 /\ HandleSend
  \/ \E i \in 1..Len(turns) : FetchSettles(i)
  \/ \E i \in 1..Len(turns) : \E chunk \in Chunks :
       chunksRead < MaxChunks /\ ReadChunk(i, chunk)
  \/ \E i \in 1..Len(turns) : ReadDone(i)
  \/ \E i \in 1..Len(turns) : ReadError(i)
  \/ HandleClearAll
  \/ ClearSettles
  \/ HandleMouseDown
  \/ MouseUp
  \/ PreviewClick

SpecPreview == Init /\ [][PreviewNext]_vars

ReloadNext ==
  \/ ChangeInput
  \/ requests = 0 /\ HandleSend
  \/ \E i \in 1..Len(turns) : FetchSettles(i)
  \/ \E i \in 1..Len(turns) : \E chunk \in Chunks :
       chunksRead < MaxChunks /\ ReadChunk(i, chunk)
  \/ \E i \in 1..Len(turns) : ReadDone(i)
  \/ \E i \in 1..Len(turns) : ReadError(i)
  \/ HandleClearAll
  \/ ClearSettles
  \/ HandleRefreshIframe
  \/ RefreshTimerFires

SpecReload == Init /\ [][ReloadNext]_vars

(***************************************************************************)
(* The specification of one turn's reads: the page is in the read loop of  *)
(* its first turn and the backend sends one response body, which           *)
(* reader.read() delivers cut into chunks at any places between two wire   *)
(* units; the stream ends when the whole body has been delivered.          *)
(***************************************************************************)
\* the response body: a fenced document in two delta lines and the sentinel line
StreamBody ==
  DeltaLine(<<"fT", "fM", "fH">>) \o DeltaLine(<<"fE", "fN", "fT">>)
    \o <<"data", "done", "nl">>

\* the part of the body that reader.read() has not delivered yet
Undelivered(i) == SubSeq(StreamBody, Len(turns[i].wire) + 1, Len(StreamBody))

StreamNext ==
  \/ \E i \in 1..Len(turns) : \E n \in 1..Len(Undelivered(i)) :
       ReadChunk(i, SubSeq(Undelivered(i), 1, n))
  \/ \E i \in 1..Len(turns) : Undelivered(i) = <<>> /\ ReadDone(i)

SpecStream == ExtInit /\ [][StreamNext]_vars

(***************************************************************************)
(* The specification of the clear route: requests one after the other,     *)
(* each answered by the backend in every way of Answers.                   *)
(***************************************************************************)
RelayNext ==
  \/ RelayPost
  \/ \E a \in Answers : RelayFetchSettles(a)
  \/ RelayJsonSettles

SpecRelay == Init /\ [][RelayNext]_vars

(***************************************************************************)
(* The specification of the split pane alone: presses, moves and releases  *)
(* at every pointer position of two container widths, no chat activity.    *)
(***************************************************************************)
\* the largest e.clientX of SpecDrag
MaxClientX == 310

DragClientXs == 0..MaxClientX

DragRects == {[left |-> 10, width |-> 200], [left |-> 10, width |-> 300],
              [left |-> 10, width |-> 0]}

DragNext ==
  \/ HandleMouseDown
  \/ \E clientX \in DragClientXs, rect \in DragRects : MouseMove(clientX, rect)
  \/ MouseUp
  \/ Unmount

SpecDrag == Init /\ [][DragNext]_vars

(***************************************************************************)
(* Vocabulary of the claims about extraction, stated on positions of the   *)
(* buffer and not by the scan the program performs.                        *)
(***************************************************************************)
Min(S) == CHOOSE x \in S : \A y \in S : x <= y

RECURSIVE Flatten(_)
Flatten(ss) == IF ss = <<>> THEN <<>> ELSE Head(ss) \o Flatten(Tail(ss))

\* the positions of an opening marker (three backquotes, html, line feed)
OpenFences(buf) == {i \in 1..Len(buf) : StartsAt(buf, i, FenceOpen)}

\* the positions, after the opening marker at i, of a closing marker (a line
\* feed and three backquotes)
ClosesAfter(buf, i) ==
  {j \in (i + Len(FenceOpen))..Len(buf) : StartsAt(buf, j, FenceClose)}

\* the positions where a complete fenced block opens
FenceStarts(buf) == {i \in OpenFences(buf) : ClosesAfter(buf, i) # {}}

\* the inner content of the complete fenced block that opens at i
InnerAt(buf, i) == SubSeq(buf, i + Len(FenceOpen), Min(ClosesAfter(buf, i)) - 1)

\* the inner content of the first complete fenced block
FencedInner(buf) == InnerAt(buf, Min(FenceStarts(buf)))

\* the positions of the > that can end an opening root tag begun at i
TagEnds(buf, i) == {k \in (i + Len(HtmlOpenSig))..Len(buf) : buf[k] = ">"}

\* the positions of a raw document signature: a doctype or an opening root tag
RawStarts(buf) ==
  {i \in 1..Len(buf) :
     \/ StartsAtCI(buf, i, DoctypeSig)
     \/ StartsAtCI(buf, i, HtmlOpenSig) /\ TagEnds(buf, i) # {}}

\* the position after the signature at i
HeadEndAt(buf, i) ==
  IF StartsAtCI(buf, i, DoctypeSig) THEN i + Len(DoctypeSig)
  ELSE Min(TagEnds(buf, i)) + 1

\* the positions of a closing root tag at or after p
ClosesFrom(buf, p) == {j \in p..Len(buf) : StartsAtCI(buf, j, HtmlCloseSig)}

\* the positions of a closing root tag after the first signature
RawCloses(buf) == ClosesFrom(buf, HeadEndAt(buf, Min(RawStarts(buf))))

\* from position i to the first of the closing root tags cs, or to the end
SpanTo(buf, i, cs) ==
  SubSeq(buf, i, IF cs # {} THEN Min(cs) + Len(HtmlCloseSig) - 1 ELSE Len(buf))

\* from the signature at i to its closing root tag, or to the end of the buffer
SpanAt(buf, i) == SpanTo(buf, i, ClosesFrom(buf, HeadEndAt(buf, i)))

\* from the first signature to its closing root tag, or to the end of the buffer
RawSpan(buf) == SpanAt(buf, Min(RawStarts(buf)))

\* the turns in the read loop
Reading == {i \in 1..Len(turns) : turns[i].pc = "read"}

\* C4: after the deltas D1..Dn of a turn, each followed by a re-evaluation, the
\* extraction result the page holds (currentHtml and the RenderSnapshot) is the
\* result of extracting once from D1 + ... + Dn: the html of that result when
\* there is one, and otherwise nothing was ever set.
C4_IncrementalIsOneShot ==
  \A i \in Reading :
    \E r \in {ExtractionResult(Flatten(turns[i].deltas))} :
      IF r.confidence = "none"
      THEN turns[i].cur = <<>> /\ previewHtml = defaultHTML
      ELSE turns[i].cur = r.html /\ previewHtml = r.html

\* C4 witness: the opening fence arrived in two deltas, the block was completed
\* by the last of four deltas, and the snapshot is the fenced content.
C4_Witness ==
  \E i \in Reading :
    /\ Len(turns[i].deltas) = 4
    /\ turns[i].deltas[1] = Text("fT")
    /\ turns[i].deltas[2] = Text("fM")
    /\ FenceStarts(Flatten(SubSeq(turns[i].deltas, 1, 3))) = {}
    /\ FenceStarts(turns[i].acc) # {}
    /\ previewHtml = FencedInner(turns[i].acc)
    /\ previewHtml # <<>>

\* C9: a buffer that holds a complete fenced block (opening marker, content,
\* closing marker on a line of its own) and a raw document signature, in either
\* order, yields the inner content of the first fenced block.
C9_FencedOutranksRaw ==
  \A i \in Reading :
    (FenceStarts(turns[i].acc) # {} /\ RawStarts(turns[i].acc) # {})
      => \E inner \in {FencedInner(turns[i].acc)} :
           turns[i].cur = inner /\ previewHtml = inner

\* C9 witness: the raw document starts before the fenced block, its span is
\* not the fenced content, and the snapshot is the fenced content.
C9_Witness ==
  \E i \in Reading :
    /\ FenceStarts(turns[i].acc) # {}
    /\ RawStarts(turns[i].acc) # {}
    /\ Min(RawStarts(turns[i].acc)) < Min(FenceStarts(turns[i].acc))
    /\ RawSpan(turns[i].acc) # FencedInner(turns[i].acc)
    /\ previewHtml = FencedInner(turns[i].acc)

\* C10: a buffer with an opening fence and no closing fence after it is not
\* extracted as fenced: with a raw signature the result is the span from the
\* first signature to its closing root tag or to the end of the buffer, and
\* without one nothing is extracted.
C10_OpenFenceIsNotFenced ==
  \A i \in Reading :
    (OpenFences(turns[i].acc) # {} /\ FenceStarts(turns[i].acc) = {})
      => /\ ExtractionResult(turns[i].acc).confidence # "fenced"
         /\ \E rs \in {RawStarts(turns[i].acc)} :
              IF rs # {}
              THEN \E span \in {SpanAt(turns[i].acc, Min(rs))} :
                     turns[i].cur = span /\ previewHtml = span
              ELSE turns[i].cur = <<>> /\ previewHtml = defaultHTML

\* C10 witness: the fence is open, text and then a root tag follow it, no
\* closing root tag has arrived, and the snapshot runs to the end of the buffer.
C10_Witness ==
  \E i \in Reading :
    /\ OpenFences(turns[i].acc) # {}
    /\ FenceStarts(turns[i].acc) = {}
    /\ RawStarts(turns[i].acc) # {}
    /\ Min(RawStarts(turns[i].acc)) > Min(OpenFences(turns[i].acc)) + Len(FenceOpen)
    /\ RawCloses(turns[i].acc) = {}
    /\ Len(turns[i].deltas) >= 4
    /\ previewHtml = RawSpan(turns[i].acc)
    /\ previewHtml # SubSeq(turns[i].acc, Min(OpenFences(turns[i].acc)) + Len(FenceOpen),
                            Len(turns[i].acc))

\* C11: the delta that completes a fenced block (no complete block before it,
\* one after it) leaves a fenced result whose html, the same in currentHtml and
\* in the RenderSnapshot, is the text between the opening marker line and the
\* closing marker: at the first opening marker that is ever closed the buffer
\* holds opening marker, html, line feed and three backquotes in a row, and html
\* holds no closing marker.
C11_FenceCompletedAcrossDeltas ==
  [][ \A i \in Reading :
        (FenceStarts(turns[i].acc) = {} /\ FenceStarts(turns'[i].acc) # {}) =>
          \E s \in {Min(FenceStarts(turns'[i].acc))} :
            /\ ExtractionResult(turns'[i].acc).confidence = "fenced"
            /\ turns'[i].cur = previewHtml'
            /\ StartsAt(turns'[i].acc, s, FenceOpen \o previewHtml' \o FenceClose)
            /\ FindFrom(previewHtml', FenceClose, 1) = 0 ]_vars

\* C11 witness: the opening marker arrived in the first delta, the document in
\* two further deltas and the closing marker in the fourth; the snapshot is the
\* document without markers and without the line feed before the closing one.
C11_Witness ==
  \E i \in Reading :
    /\ turns[i].deltas =
         <<Text("fT") \o Text("fM"), Text("fH"), Text("fE"), Text("fN") \o Text("fT")>>
    /\ previewHtml = Text("fH") \o Text("fE")
    /\ turns[i].cur = previewHtml

(***************************************************************************)
(* Claims about the chat turn, clear and the split pane.                   *)
(***************************************************************************)
CatchOps == {"catch:rejected", "catch:status", "catch:nobody", "catch:read"}

FallbackMessage == [role |-> "assistant", content |-> Fallback]

\* C1: whenever no turn is in flight the busy flag is false, so every exit of
\* a turn (end of stream, fetch rejection, error status, missing body, read
\* error) has cleared it.
C1_IdleIsNotBusy == (turns = <<>>) => ~isLoading

\* C1 witness: the only turn so far ended with a read error after a chunk had
\* been processed, and the busy flag is false.
C1_Witness ==
  /\ lastOp = "catch:read"
  /\ requests = 1
  /\ chunksRead >= 1
  /\ turns = <<>>
  /\ ~isLoading

\* C2: a submit while the busy flag is set changes neither the message
\* sequence, the input, the in-flight turn nor the RenderSnapshot and sends no
\* request; and a request is only ever sent by a submit made while the flag is
\* clear (a rejected submit is not replayed later).
C2_BusySubmitRejected ==
  [][ /\ (isLoading /\ HandleSend) =>
           /\ UNCHANGED <<messages, input, turns, previewHtml, requests, isLoading>>
           /\ lastOp' = "handleSend:rejected"
      /\ (requests' # requests) => (~isLoading /\ HandleSend) ]_vars

\* C2 witness: a submit was rejected while the turn in flight had already
\* accumulated text.
C2_Witness ==
  /\ lastOp = "handleSend:rejected"
  /\ isLoading
  /\ Len(turns) = 1
  /\ turns[1].acc # <<>>

\* C3: at most one turn is in flight in every reachable state.
C3_AtMostOneTurn == Len(turns) <= 1

\* C3 witness: the second turn of the behaviour is in its read loop, alone,
\* while the divider is being dragged and a clear call is pending.
C3_Witness ==
  /\ requests = 2
  /\ Len(turns) = 1
  /\ turns[1].pc = "read"
  /\ isResizing
  /\ clearPending > 0

\* C5: the step that issues the clear call leaves exactly the greeting and the
\* placeholder document, and the step in which the clear call settles (success,
\* error status or network failure) changes neither.
C5_ClearResets ==
  [][ /\ (clearPending' > clearPending) =>
           (messages' = <<GreetingMessage>> /\ previewHtml' = defaultHTML)
      /\ (clearPending' < clearPending) =>
           UNCHANGED <<messages, previewHtml, input>> ]_vars

\* C5 witness: after two finished turns clear was called, its backend call
\* failed at the network level and was logged, and the page shows the greeting
\* and the placeholder.
C5_Witness ==
  /\ lastOp = "clear:logged"
  /\ requests = 2
  /\ chunksRead >= 1
  /\ turns = <<>>
  /\ messages = <<GreetingMessage>>
  /\ previewHtml = defaultHTML

\* C6: a step in which a turn fails appends exactly the fallback message to
\* the message sequence.
C6_FailureAppendsFallback ==
  [][ (Len(turns') < Len(turns) /\ lastOp' \in CatchOps) =>
        messages' = Append(messages, FallbackMessage) ]_vars

\* C6 witness: the first turn had extracted a document from the text it had
\* accumulated when its read failed; the sequence is greeting, user, fallback.
C6_Witness ==
  /\ lastOp = "catch:read"
  /\ requests = 1
  /\ previewHtml # defaultHTML
  /\ Len(messages) = 3
  /\ messages[3] = FallbackMessage

\* the first line feed of a chunk at or after position s, Len + 1 without one
LineEnd(chunk, s) ==
  Min({k \in s..Len(chunk) : chunk[k] = "nl"} \cup {Len(chunk) + 1})

\* a line that is a marker followed by an envelope with a content field
IsDeltaLine(line) ==
  /\ Len(line) >= 3
  /\ line[1] = "data" /\ line[2] = "open" /\ line[Len(line)] = "close"
  /\ \A k \in 3..(Len(line) - 1) : line[k] \in FragNames

\* a marker-prefixed line whose payload fails to parse
IsMalformedLine(line) ==
  /\ Len(line) >= 1
  /\ line[1] = "data"
  /\ ~IsDeltaLine(line)
  /\ Tail(line) \notin {<<"done">>, <<"other">>}

\* the contents of the valid delta lines of a chunk from position s on, in order
RECURSIVE DeltaText(_, _)
DeltaText(chunk, s) ==
  IF s > Len(chunk) THEN <<>>
  ELSE (IF IsDeltaLine(SubSeq(chunk, s, LineEnd(chunk, s) - 1))
        THEN TextOf(SubSeq(chunk, s + 2, LineEnd(chunk, s) - 2))
        ELSE <<>>) \o DeltaText(chunk, LineEnd(chunk, s) + 1)

\* the number of malformed lines of a chunk from position s on
RECURSIVE Malformed(_, _)
Malformed(chunk, s) ==
  IF s > Len(chunk) THEN 0
  ELSE (IF IsMalformedLine(SubSeq(chunk, s, LineEnd(chunk, s) - 1)) THEN 1 ELSE 0)
       + Malformed(chunk, LineEnd(chunk, s) + 1)

\* C7: when a chunk is processed, every malformed line of it is logged and
\* skipped, and the buffer grows by the contents of all the valid delta lines of
\* the chunk, in order, those after a malformed line included; the turn stays in
\* its read loop and no message is appended.
C7_MalformedLineSkipped ==
  [][ \A i \in 1..Len(turns) : \A chunk \in Chunks :
        (chunksRead' = chunksRead + 1 /\ ReadChunk(i, chunk)) =>
          /\ Len(turns') = Len(turns)
          /\ turns'[i].pc = "read"
          /\ turns'[i].acc = turns[i].acc \o DeltaText(chunk, 1)
          /\ turns'[i].errs = turns[i].errs + Malformed(chunk, 1)
          /\ UNCHANGED <<messages, isLoading>> ]_vars

\* C7 witness: a malformed line was skipped between two deltas and the buffer
\* holds both deltas.
C7_Witness ==
  \E i \in Reading :
    /\ turns[i].errs = 1
    /\ turns[i].deltas = <<Text("fH"), Text("fX")>>
    /\ turns[i].acc = Text("fH") \o Text("fX")
    /\ isLoading

\* a buffer without a complete fenced block and without a raw document signature
NoDocument(buf) == FenceStarts(buf) = {} /\ RawStarts(buf) = {}

\* C12: a chunk whose deltas leave a buffer without a fenced block and without
\* a raw document signature changes neither the RenderSnapshot nor currentHtml.
C12_NoneKeepsSnapshot ==
  [][ \A i \in Reading :
        (/\ chunksRead' = chunksRead + 1
         /\ turns'[i].acc # turns[i].acc
         /\ NoDocument(turns'[i].acc)) =>
          /\ previewHtml' = previewHtml
          /\ turns'[i].cur = turns[i].cur ]_vars

\* C12 witness: the second turn has received plain text only, and the surface
\* still shows the document the first turn extracted.
C12_Witness ==
  /\ lastOp = "read:chunk"
  /\ requests = 2
  /\ Len(turns) = 1
  /\ turns[1].deltas = <<Text("fX")>>
  /\ NoDocument(turns[1].acc)
  /\ previewHtml = Text("fH")

\* C13: the iframe is without pointer events exactly in the states where a turn
\* is in flight or the divider is being dragged, and it accepts them exactly
\* when the busy flag is false and the drag state is idle.
C13_SurfaceGuardedIffBusyOrDragging ==
  /\ IframePointerEventsNone <=> (turns # <<>> \/ isResizing)
  /\ (~IframePointerEventsNone) <=> (~isLoading /\ ~isResizing)

\* C13 witness: the first turn has ended and the busy flag is false, the
\* divider is being dragged, and the iframe is without pointer events.
C13_Witness ==
  /\ requests >= 1
  /\ turns = <<>>
  /\ ~isLoading
  /\ isResizing
  /\ IframePointerEventsNone

\* C14 as stated: every click on the surface made while the iframe is without
\* pointer events (a turn in flight, or the divider being dragged) shows a
\* warning.
C14_EveryGuardedClickWarns ==
  [][ (IframePointerEventsNone /\ clicks' = clicks + 1) => toasts' = toasts + 1 ]_vars

\* C14 amended: a click on the surface shows exactly one warning when a turn
\* is in flight, and none otherwise, also while the divider is being dragged.
C14_ClickWarnsIffTurnInFlight ==
  [][ (clicks' = clicks + 1) =>
        toasts' = (IF turns # <<>> THEN toasts + 1 ELSE toasts) ]_vars

\* C14 witness: the turn in flight has accumulated text, the surface was
\* clicked twice, once during the turn and once before it, and one warning
\* was shown.
C14_Witness ==
  /\ Len(turns) = 1
  /\ turns[1].acc # <<>>
  /\ isLoading
  /\ clicks = 2
  /\ toasts = 1

\* C15: the step that invokes the reload empties the surface and leaves a
\* pending reassignment of the content the surface held before the step; the
\* step in which that reassignment fires puts this content on the surface; and
\* neither step changes the RenderSnapshot.
C15_ReloadReassignsSameContent ==
  [][ /\ (Len(timers') > Len(timers)) =>
           /\ srcdoc' = <<>>
           /\ timers' = Append(timers, srcdoc)
           /\ previewHtml' = previewHtml
      /\ (Len(timers') < Len(timers)) =>
           /\ srcdoc' = Head(timers)
           /\ timers' = Tail(timers)
           /\ previewHtml' = previewHtml ]_vars

\* C15 witness: the turn has ended, the surface showed its document when the
\* reload was invoked, and now the surface is empty with the reassignment of
\* that document pending.
C15_Witness ==
  /\ lastOp = "read:done"
  /\ previewHtml = Text("fH")
  /\ srcdoc = <<>>
  /\ timers = <<Text("fH")>>

\* C16: when the route has answered, a backend response with a success status
\* and a JSON body was passed on unchanged with a success status; a backend
\* response with a failure status, a rejected call and a body that is not JSON
\* were answered with a status outside 200..299 and an object that holds
\* exactly an error text, which is the detail of the backend when the backend
\* sent a failure status with a non-empty detail string.
C16_RelayAnswers ==
  (relay.pc = "done") =>
    \E a \in {relay.answer} : \E r \in {relay.response} :
      IF a.kind = "response" /\ a.status \in 200..299 /\ a.body.kind # "text"
      THEN r.status \in 200..299 /\ r.body = a.body
      ELSE /\ r.status \notin 200..299
           /\ DOMAIN r.body = {"error"}
           /\ (/\ a.kind = "response"
               /\ a.body.kind = "object"
               /\ a.body.detail.type = "string"
               /\ a.body.detail.text # "") => r.body.error = a.body.detail.text

\* C16 witness: the second request met a backend that answered 500 with a
\* detail, and the route answered 500 with that detail as its error.
C16_Witness ==
  /\ relay.pc = "done"
  /\ relay.calls = 2
  /\ relay.answer.kind = "response"
  /\ relay.answer.status = 500
  /\ relay.answer.body.kind = "object"
  /\ relay.answer.body.detail = Str("Context store unavailable")
  /\ relay.response = [status |-> 500, body |-> [error |-> "Context store unavailable"]]

\* the contents of the valid delta lines of a body from position s on, one
\* element per line, in order
RECURSIVE DeltaSeq(_, _)
DeltaSeq(body, s) ==
  IF s > Len(body) THEN <<>>
  ELSE (IF IsDeltaLine(SubSeq(body, s, LineEnd(body, s) - 1))
        THEN <<TextOf(SubSeq(body, s + 2, LineEnd(body, s) - 2))>>
        ELSE <<>>) \o DeltaSeq(body, LineEnd(body, s) + 1)

\* C17 as stated: however the body was cut into chunks, once it has been
\* delivered whole the deltas emitted are the contents of its delta lines, and
\* at the end of the turn the assistant message is their concatenation.
C17_CutsDoNotMatter ==
  /\ \A i \in Reading :
       turns[i].wire = StreamBody => turns[i].deltas = DeltaSeq(StreamBody, 1)
  /\ (lastOp = "read:done") =>
       messages[Len(messages)].content = Flatten(DeltaSeq(StreamBody, 1))

\* the contents of the valid delta lines that come before the first sentinel
\* line of a body, from position s on
RECURSIVE DeltaTextToSentinel(_, _)
DeltaTextToSentinel(body, s) ==
  IF s > Len(body) THEN <<>>
  ELSE IF SubSeq(body, s, LineEnd(body, s) - 1) = <<"data", "done">> THEN <<>>
  ELSE (IF IsDeltaLine(SubSeq(body, s, LineEnd(body, s) - 1))
        THEN TextOf(SubSeq(body, s + 2, LineEnd(body, s) - 2))
        ELSE <<>>) \o DeltaTextToSentinel(body, LineEnd(body, s) + 1)

\* C18 as stated: the buffer of a turn holds the deltas of the lines received
\* before the first sentinel line and nothing of the lines after it, whether
\* they came in the same chunk or in a later one.
C18_SentinelStopsIngestion ==
  \A i \in Reading : turns[i].acc = DeltaTextToSentinel(turns[i].wire, 1)

IsPrefix(a, b) == Len(a) <= Len(b) /\ SubSeq(b, 1, Len(a)) = a

\* what a step has added to the delivered body of turn i
Arrived(i) == SubSeq(turns'[i].wire, Len(turns[i].wire) + 1, Len(turns'[i].wire))

\* C19: as long as a turn is in flight no step shortens or rewrites its buffer;
\* a step that reads a chunk appends the contents of the delta lines of the
\* chunk, in the order of the lines, to the deltas and to the buffer, and when
\* the buffer holds a document the result the page then holds is the
\* extraction from the buffer as it is after the step; and the step that ends
\* the stream appends an assistant message that is the concatenation of the
\* deltas of the turn in their order.
C19_BufferGrowsInOrder ==
  [][ /\ \A i \in 1..Len(turns) :
           (turns' # turns /\ Len(turns') >= Len(turns)) =>
             /\ IsPrefix(turns[i].acc, turns'[i].acc)
             /\ IsPrefix(turns[i].deltas, turns'[i].deltas)
             /\ (chunksRead' = chunksRead + 1 /\ turns'[i].wire # turns[i].wire) =>
                  \E new \in {DeltaSeq(Arrived(i), 1)} :
                    /\ turns'[i].deltas = turns[i].deltas \o new
                    /\ turns'[i].acc = turns[i].acc \o Flatten(new)
                    /\ (new # <<>> /\ ~NoDocument(turns'[i].acc)) =>
                         /\ previewHtml' = ExtractionResult(turns'[i].acc).html
                         /\ turns'[i].cur = previewHtml'
      /\ (Len(turns') < Len(turns) /\ lastOp' = "read:done") =>
           messages' = Append(messages, [role |-> "assistant",
                                         content |-> Flatten(turns[1].deltas)]) ]_vars

\* C19 witness: the first turn received three deltas in two chunks and ended;
\* its message is their concatenation and the snapshot is the raw document
\* that runs to the end of it.
C19_Witness ==
  /\ lastOp = "read:done"
  /\ requests = 1
  /\ Len(messages) = 3
  /\ messages[3].content = Text("fH") \o Text("fX") \o Text("fX")
  /\ previewHtml = messages[3].content

\* C20: a pointer-move during a drag that computes less than 30 or more than
\* 70 (or no number, over a container of width 0) leaves the width at its
\* prior value and the drag state dragging.
\* (Stated with the conclusion first: a step of a drag that changes the width
\* or ends the drag is not such a pointer-move.)
C20_OutOfRangeMoveIgnored ==
  [][ \/ ~isResizing
      \/ leftPanelWidth' = leftPanelWidth /\ isResizing'
      \/ \A clientX \in ClientXs : \A rect \in Rects :
           (\/ rect.width = 0
            \/ (clientX - rect.left) * 100 < 30 * rect.width
            \/ (clientX - rect.left) * 100 > 70 * rect.width)
             => ~MouseMove(clientX, rect) ]_vars

\* C20 witness: during a drag, while a turn is in flight, the width stands at
\* 30 of a container of 200, set by an earlier move; the moves to 25 and to 75
\* are possible from here.
C20_Witness ==
  /\ isResizing
  /\ isLoading
  /\ leftPanelWidth = [num |-> 6000, den |-> 200]

\* C21: the window holds a mousemove or a mouseup listener of the component
\* only while isResizing is true and the component is mounted, so none is left
\* after a release or after an unmount from either state, and it never holds
\* more than one listener of either kind.
C21_ListenersOnlyWhileDragging ==
  /\ listening.mousemove <= 1
  /\ listening.mouseup <= 1
  /\ (listening.mousemove > 0 \/ listening.mouseup > 0) => (isResizing /\ mounted)
  /\ (isResizing /\ mounted) => (listening.mousemove = 1 /\ listening.mouseup = 1)

\* unmounted in the middle of a drag that has moved the divider
C21_Witness ==
  /\ ~mounted
  /\ isResizing
  /\ leftPanelWidth.den = 200
  /\ listening = NoListeners

\* C22: leftPanelWidth changes only in a step that starts with isResizing true;
\* a press on the divider leaves isResizing true, and a release while the
\* mounted component is resizing leaves it false, the release carrying no
\* pointer position at all.
C22_WidthChangesOnlyWhileDragging ==
  [][ /\ (leftPanelWidth' # leftPanelWidth) => isResizing
      /\ HandleMouseDown => isResizing'
      /\ (mounted /\ isResizing /\ MouseUp) => ~isResizing' ]_vars

\* idle again after a drag that moved the divider: the moves that follow
\* are moves after a release
C22_Witness ==
  /\ mounted
  /\ ~isResizing
  /\ leftPanelWidth.den = 300
  /\ listening = NoListeners

\* C23: the step that accepts a turn appends one user message holding the
\* input; the step that ends a turn appends one assistant message, the
\* accumulated text when the stream ended and the fallback when the turn was
\* caught; every other step of a turn leaves the messages as they are.
C23_OneUserOneAssistantPerTurn ==
  [][ /\ (requests' = requests + 1) =>
           messages' = Append(messages, [role |-> "user", content |-> input])
      /\ (Len(turns') < Len(turns)) =>
           \E i \in 1..Len(turns) :
             /\ turns' = Remove(turns, i)
             /\ messages' = Append(messages,
                   [role |-> "assistant",
                    content |-> IF lastOp' = "read:done" THEN turns[i].acc
                                ELSE Fallback])
      /\ (requests' = requests /\ Len(turns') = Len(turns)
            /\ clearPending' = clearPending) => messages' = messages ]_vars

\* a turn has ended with accumulated text: greeting, user, assistant
C23_Witness ==
  /\ lastOp = "read:done"
  /\ turns = <<>>
  /\ Len(messages) = 3
  /\ messages[2].role = "user"
  /\ messages[3].role = "assistant"
  /\ messages[3].content # Fallback
  /\ messages[3].content # <<>>

\* C24: the messages are the greeting followed by user and assistant messages
\* in strict alternation, a user message first, in every reachable state.
C24_GreetingThenAlternation ==
  /\ Len(messages) >= 1
  /\ messages[1] = GreetingMessage
  /\ \A k \in 2..Len(messages) :
       messages[k].role = IF k % 2 = 0 THEN "user" ELSE "assistant"

\* C25: whenever no reassignment of a reload is pending, the srcdoc of the
\* iframe is the html prop, previewHtml.
C25_SurfaceShowsSnapshotWhenSettled ==
  (timers = <<>>) => (srcdoc = previewHtml)

\* C26: a delta that arrives when the extraction result of the turn is fenced
\* leaves a fenced result with the same html; currentHtml keeps its value and
\* the RenderSnapshot after the delta is that same html.
C26_FencedResultIsFinal ==
  [][ (chunksRead' = chunksRead + 1) =>
        \A i \in Reading :
          \E r \in {ExtractionResult(turns[i].acc)} :
            (r.confidence = "fenced" /\ turns'[i].acc # turns[i].acc) =>
              \E q \in {ExtractionResult(turns'[i].acc)} :
                /\ q.confidence = "fenced"
                /\ q.html = r.html
                /\ turns'[i].cur = turns[i].cur
                /\ turns'[i].cur = r.html
                /\ previewHtml' = r.html ]_vars

\* C26 witness: a fenced block was complete after three deltas, the fourth
\* delta brought a raw document signature, and the snapshot is the html of the
\* block
C26_Witness ==
  \E i \in Reading :
    /\ turns[i].deltas =
         <<Text("fT") \o Text("fM"), Text("fH"), Text("fN") \o Text("fT"), Text("fD")>>
    /\ previewHtml = Text("fH")
    /\ turns[i].cur = previewHtml

\* C8: leftPanelWidth is within [30, 70] in every reachable state.
C8_WidthInRange ==
  /\ leftPanelWidth.den > 0
  /\ leftPanelWidth.num >= 30 * leftPanelWidth.den
  /\ leftPanelWidth.num <= 70 * leftPanelWidth.den

\* C8 witness: during a drag the width stands at exactly 70, from where moves
\* further right compute more than 70.
C8_Witness ==
  /\ isResizing
  /\ leftPanelWidth.den = 300
  /\ leftPanelWidth.num = 70 * leftPanelWidth.den

====
